---- MODULE Spec2Model ----
(***************************************************************************)
(* Model of the rayforge registry scripts:                                 *)
(*   scripts/update_registry.py   (update_package_entry, main)             *)
(*   scripts/validate_package.py  (validate_schema, validate_content, main)*)
(* Python strings are modelled as sequences of one-character strings, so   *)
(* that stripping, splitting, parsing and comparing are computed.          *)
(***************************************************************************)
EXTENDS Integers, Sequences, FiniteSets, TLC

(***************************************************************************)
(* Characters and Python str operations                                    *)
(***************************************************************************)
Digits == {"0", "1", "2", "3", "4", "5", "6", "7", "8", "9"}

Lower == {"a", "b", "c", "d", "e", "g", "h", "i", "l", "m", "n", "o",
          "p", "r", "s", "t", "u", "v", "x", "y"}

Upper == {"A"}

\* Code points of the characters the model uses (ASCII).
Ord == [c \in {" ", "+", "-", ".", "/", ":", "@", "_"} \cup Digits \cup Upper \cup Lower |->
          CASE c = " " -> 32 [] c = "+" -> 43 [] c = "-" -> 45 [] c = "." -> 46
            [] c = "/" -> 47 [] c = "0" -> 48 [] c = "1" -> 49 [] c = "2" -> 50
            [] c = "3" -> 51 [] c = "4" -> 52 [] c = "5" -> 53 [] c = "6" -> 54
            [] c = "7" -> 55 [] c = "8" -> 56 [] c = "9" -> 57 [] c = ":" -> 58
            [] c = "@" -> 64 [] c = "A" -> 65 [] c = "_" -> 95
            [] c = "a" -> 97 [] c = "b" -> 98 [] c = "c" -> 99 [] c = "d" -> 100
            [] c = "e" -> 101 [] c = "g" -> 103 [] c = "h" -> 104 [] c = "i" -> 105
            [] c = "l" -> 108 [] c = "m" -> 109 [] c = "n" -> 110 [] c = "o" -> 111
            [] c = "p" -> 112 [] c = "r" -> 114 [] c = "s" -> 115 [] c = "t" -> 116
            [] c = "u" -> 117 [] c = "v" -> 118 [] c = "x" -> 120 [] c = "y" -> 121]

\* cmp(a, b) on integers: -1, 0 or 1.
IntCmp(a, b) == IF a < b THEN -1 ELSE IF a > b THEN 1 ELSE 0

\* Python str comparison: lexicographic by code point, a proper prefix is smaller.
RECURSIVE StrCmp(_, _)
StrCmp(a, b) ==
  IF a = <<>> /\ b = <<>> THEN 0
  ELSE IF a = <<>> THEN -1
  ELSE IF b = <<>> THEN 1
  ELSE IF Head(a) # Head(b) THEN IntCmp(Ord[Head(a)], Ord[Head(b)])
  ELSE StrCmp(Tail(a), Tail(b))

\* str.lstrip(chars) for a one-character set.
RECURSIVE LStrip(_, _)
LStrip(s, c) == IF s # <<>> /\ Head(s) = c THEN LStrip(Tail(s), c) ELSE s

\* str.strip() over the whitespace the model uses (the space).
RECURSIVE RStrip(_, _)
RStrip(s, c) ==
  IF s # <<>> /\ s[Len(s)] = c THEN RStrip(SubSeq(s, 1, Len(s) - 1), c) ELSE s

Strip(s) == RStrip(LStrip(s, " "), " ")

\* `sub in s` for strings.
Contains(sub, s) ==
  \E i \in 0..(Len(s) - Len(sub)) : SubSeq(s, i + 1, i + Len(sub)) = sub

\* Index of the first occurrence of character c in s, 0 when absent.
FirstIndex(s, c) ==
  IF \E i \in 1..Len(s) : s[i] = c
  THEN CHOOSE i \in 1..Len(s) : s[i] = c /\ \A j \in 1..(i - 1) : s[j] # c
  ELSE 0

\* s.split(c): the sequence of the pieces between occurrences of c.
RECURSIVE Split(_, _)
Split(s, c) ==
  LET i == FirstIndex(s, c)
  IN IF i = 0 THEN <<s>>
     ELSE <<SubSeq(s, 1, i - 1)>> \o Split(SubSeq(s, i + 1, Len(s)), c)

AllIn(s, chars) == \A i \in 1..Len(s) : s[i] \in chars

\* int(s) for a string of decimal digits.
RECURSIVE ToInt(_)
ToInt(s) ==
  IF s = <<>> THEN 0
  ELSE 10 * ToInt(SubSeq(s, 1, Len(s) - 1)) + (Ord[s[Len(s)]] - 48)

(***************************************************************************)
(* semver.VersionInfo: parse and ordering                                  *)
(***************************************************************************)
AlnumHyphen == Digits \cup Upper \cup Lower \cup {"-"}

\* 0|[1-9]\d*
IsNumericId(s) ==
  /\ s # <<>>
  /\ AllIn(s, Digits)
  /\ (Len(s) > 1 => s[1] # "0")

\* 0|[1-9]\d*|\d*[a-zA-Z-][0-9a-zA-Z-]*
IsPrereleaseId(s) ==
  /\ s # <<>>
  /\ AllIn(s, AlnumHyphen)
  /\ (AllIn(s, Digits) => (Len(s) > 1 => s[1] # "0"))

\* [0-9a-zA-Z-]+
IsBuildId(s) == s # <<>> /\ AllIn(s, AlnumHyphen)

Has(s, c) == \E i \in 1..Len(s) : s[i] = c

\* What precedes the first c in s (all of s when it has none).
BeforeFirst(s, c) == IF Has(s, c) THEN SubSeq(s, 1, FirstIndex(s, c) - 1) ELSE s

\* What follows the first c in s.
AfterFirst(s, c) == IF Has(s, c) THEN SubSeq(s, FirstIndex(s, c) + 1, Len(s)) ELSE <<>>

\* The parts of MAJOR.MINOR.PATCH[-PRERELEASE][+BUILD] as the regular expression
\* of semver cuts them: the build follows the first "+", the prerelease the
\* first "-" of what precedes the build.
CorePart(s) == BeforeFirst(BeforeFirst(s, "+"), "-")

HasPrerelease(s) == Has(BeforeFirst(s, "+"), "-")

PrereleasePart(s) == AfterFirst(BeforeFirst(s, "+"), "-")

CoreOk(nums) == Len(nums) = 3 /\ \A i \in 1..Len(nums) : IsNumericId(nums[i])

PrereleaseOk(ids) == \A i \in 1..Len(ids) : IsPrereleaseId(ids[i])

BuildOk(ids) == \A i \in 1..Len(ids) : IsBuildId(ids[i])

\* TRUE iff semver.VersionInfo.parse(s) returns, FALSE iff it raises ValueError.
CanParse(s) ==
  /\ CoreOk(Split(CorePart(s), "."))
  /\ HasPrerelease(s) => PrereleaseOk(Split(PrereleasePart(s), "."))
  /\ Has(s, "+") => BuildOk(Split(AfterFirst(s, "+"), "."))

VersionInfo(nums, hasPre, pre, build) ==
  [major      |-> ToInt(nums[1]),
   minor      |-> ToInt(nums[2]),
   patch      |-> ToInt(nums[3]),
   hasPre     |-> hasPre,
   prerelease |-> IF hasPre THEN Split(pre, ".") ELSE <<>>,
   build      |-> build]

\* semver.VersionInfo.parse(s) for a string that parses.
Parse(s) ==
  VersionInfo(Split(CorePart(s), "."), HasPrerelease(s), PrereleasePart(s),
              AfterFirst(s, "+"))

\* Comparison of two prerelease identifiers: numeric ones by value, a numeric
\* one below an alphanumeric one, alphanumeric ones as strings.
CmpPrereleaseTag(a, b) ==
  IF AllIn(a, Digits) /\ AllIn(b, Digits) THEN IntCmp(ToInt(a), ToInt(b))
  ELSE IF AllIn(a, Digits) THEN -1
  ELSE IF AllIn(b, Digits) THEN 1
  ELSE StrCmp(a, b)

\* Comparison of two dot-separated prerelease strings, both present.
RECURSIVE NatCmp(_, _)
NatCmp(a, b) ==
  IF a = <<>> \/ b = <<>> THEN IntCmp(Len(a), Len(b))
  ELSE IF CmpPrereleaseTag(Head(a), Head(b)) # 0 THEN CmpPrereleaseTag(Head(a), Head(b))
  ELSE NatCmp(Tail(a), Tail(b))

\* VersionInfo.compare: major, minor, patch, then the prerelease (a release is
\* above its prereleases); build metadata is ignored.
VersionCompare(x, y) ==
  IF x.major # y.major THEN IntCmp(x.major, y.major)
  ELSE IF x.minor # y.minor THEN IntCmp(x.minor, y.minor)
  ELSE IF x.patch # y.patch THEN IntCmp(x.patch, y.patch)
  ELSE IF ~x.hasPre /\ ~y.hasPre THEN 0
  ELSE IF ~x.hasPre THEN 1
  ELSE IF ~y.hasPre THEN -1
  ELSE NatCmp(x.prerelease, y.prerelease)

(***************************************************************************)
(* Python values of a loaded YAML document, tagged with their type         *)
(***************************************************************************)
PyStr(s)  == [type |-> "str", value |-> s]

PyDict(d) == [type |-> "dict", value |-> d]

PyList(l) == [type |-> "list", value |-> l]

PyInt(n)  == [type |-> "int", value |-> n]

\* The empty dict {}.
EmptyDict == <<>>

\* dict.get(key, default)
Get(d, key, default) == IF key \in DOMAIN d THEN d[key] ELSE default

\* d.update(u) / d[key] = value on a dict with string keys.
Update(d, u) ==
  [k \in DOMAIN d \cup DOMAIN u |-> IF k \in DOMAIN u THEN u[k] ELSE d[k]]

(***************************************************************************)
(* scripts/update_registry.py: update_package_entry                        *)
(***************************************************************************)
NotDot(p) == p # <<>> /\ p # <<".">>

LastOr(parts, default) == IF parts = <<>> THEN default ELSE parts[Len(parts)]

\* Path(repo).name: the last component of the path, "" when there is none.
PathName(repo) == LastOr(SelectSeq(Split(repo, "/"), NotDot), <<>>)

GithubPrefix ==
  <<"h", "t", "t", "p", "s", ":", "/", "/", "g", "i", "t", "h", "u", "b",
    ".", "c", "o", "m", "/">>

\* f"https://github.com/{repo}"
RepositoryUrl(repo) == GithubPrefix \o repo

\* The 'packages' dict keeps insertion order: a sequence of (key, entry) pairs.
PackageIds(packages) == {packages[i][1] : i \in 1..Len(packages)}

IndexOf(packages, id) ==
  IF id \in PackageIds(packages)
  THEN CHOOSE i \in 1..Len(packages) : packages[i][1] = id
  ELSE 0

EntryOf(packages, id) == packages[IndexOf(packages, id)][2]

\* packages[id] = entry: replaces in place, or appends a new key at the end.
SetItem(packages, id, entry) ==
  IF id \in PackageIds(packages)
  THEN [packages EXCEPT ![IndexOf(packages, id)] = <<id, entry>>]
  ELSE Append(packages, <<id, entry>>)

InsertAt(seq, n, x) == SubSeq(seq, 1, n) \o <<x>> \o SubSeq(seq, n + 1, Len(seq))

\* The number of items of the sorted `rest` that stay before `item`.
KeysUpTo(rest, item) ==
  Cardinality({i \in 1..Len(rest) : StrCmp(rest[i][1], item[1]) <= 0})

InsertItem(rest, item) == InsertAt(rest, KeysUpTo(rest, item), item)

\* dict(sorted(packages.items())): ascending by key (keys are unique).
RECURSIVE SortedItems(_)
SortedItems(packages) ==
  IF packages = <<>> THEN <<>>
  ELSE InsertItem(SortedItems(SubSeq(packages, 1, Len(packages) - 1)),
                  packages[Len(packages)])

InSeq(x, seq) == \E i \in 1..Len(seq) : seq[i] = x

\* key=lambda v: semver.VersionInfo.parse(v.lstrip("v"))
KeyParses(v) == CanParse(LStrip(v, "v"))

SortKey(v) == Parse(LStrip(v, "v"))

Sortable(versions) == \A i \in 1..Len(versions) : KeyParses(versions[i])

\* KeysNotBelow with the comparison turned around (a sort without reverse=True).
KeysNotAbove(keys, k) ==
  Cardinality({i \in 1..Len(keys) : VersionCompare(keys[i], k) <= 0})

\* The number of elements of the sorted `keys` that stay before a new key `k`:
\* those not below it.
KeysNotBelow(keys, k) ==
  Cardinality({i \in 1..Len(keys) : VersionCompare(keys[i], k) >= 0})

\* list.sort(key=..., reverse=True) on (key, tag) pairs: descending by key,
\* elements with equal keys keep their relative order (the sort is stable).
RECURSIVE SortKeyed(_, _)
SortKeyed(versions, keys) ==
  IF versions = <<>> THEN <<>>
  ELSE InsertAt(SortKeyed(SubSeq(versions, 1, Len(versions) - 1),
                          SubSeq(keys, 1, Len(keys) - 1)),
                KeysNotBelow(SubSeq(keys, 1, Len(keys) - 1), keys[Len(keys)]),
                versions[Len(versions)])

SortVersions(versions) ==
  SortKeyed(versions, [i \in 1..Len(versions) |-> SortKey(versions[i])])

\* if "packages" not in registry_data: registry_data["packages"] = {}
EnsurePackages(registry_data) ==
  IF "packages" \in DOMAIN registry_data
  THEN registry_data
  ELSE Update(registry_data, [packages |-> <<>>])

\* GetOrCreate that takes the repository of every call from --repo.
GetOrCreateFromRepo(packages, package_id, repo) ==
  IF package_id \in PackageIds(packages)
  THEN Update(EntryOf(packages, package_id), [repository |-> RepositoryUrl(repo)])
  ELSE [repository |-> RepositoryUrl(repo), versions |-> <<>>]

\* packages.get(package_id, {"repository": ..., "versions": []})
GetOrCreate(packages, package_id, repo) ==
  IF package_id \in PackageIds(packages)
  THEN EntryOf(packages, package_id)
  ELSE [repository |-> RepositoryUrl(repo), versions |-> <<>>]

\* package_entry.update({"name": ..., "description": ..., "author": ...})
UpdateStatic(package_entry, metadata) ==
  Update(package_entry,
         [name        |-> metadata.name,
          description |-> Get(metadata, "description", PyStr(<<>>)),
          author      |-> Get(metadata, "author", PyDict(EmptyDict))])

\* AddVersion without the membership test.
AddVersionAlways(package_entry, tag) ==
  Update(package_entry, [versions |-> Append(package_entry.versions, tag)])

\* AddVersion that keeps only the new tag.
AddVersionOnly(package_entry, tag) ==
  Update(package_entry, [versions |-> <<tag>>])

\* if tag not in package_entry["versions"]: package_entry["versions"].append(tag)
AddVersion(package_entry, tag) ==
  IF InSeq(tag, package_entry.versions)
  THEN package_entry
  ELSE Update(package_entry, [versions |-> Append(package_entry.versions, tag)])

\* SetLatest that reads the last element of the sorted list.
SetLatestLast(package_entry, versions) ==
  Update(package_entry, [versions |-> versions, latest_stable |-> versions[Len(versions)]])

\* latest_stable = package_entry["versions"][0]
SetLatest(package_entry, versions) ==
  Update(package_entry, [versions |-> versions, latest_stable |-> versions[1]])

\* SortAndLatest that drops the tags whose key does not parse.
SortAndLatestParsed(package_entry) ==
  IF SelectSeq(package_entry.versions, KeyParses) = <<>>
  THEN package_entry
  ELSE SetLatest(package_entry, SortVersions(SelectSeq(package_entry.versions, KeyParses)))

\* try: sort the versions and set latest_stable; except ValueError: print a
\* warning.  A key that fails to parse raises before the list is reordered.
SortAndLatest(package_entry) ==
  IF Sortable(package_entry.versions)
  THEN SetLatest(package_entry, SortVersions(package_entry.versions))
  ELSE package_entry

\* sorted_package_entry = {...}
SortedPackageEntry(package_entry) ==
  [name          |-> package_entry.name,
   description   |-> Get(package_entry, "description", PyStr(<<>>)),
   author        |-> Get(package_entry, "author", PyDict(EmptyDict)),
   repository    |-> package_entry.repository,
   latest_stable |-> Get(package_entry, "latest_stable", <<>>),
   versions      |-> package_entry.versions]

\* WriteBack without the sort of the keys.
WriteBackUnsorted(registry_data, package_id, entry) ==
  Update(registry_data,
         [packages |-> SetItem(registry_data.packages, package_id, entry)])

\* packages[package_id] = sorted_package_entry
\* registry_data["packages"] = dict(sorted(packages.items()))
WriteBack(registry_data, package_id, entry) ==
  Update(registry_data,
         [packages |-> SortedItems(SetItem(registry_data.packages, package_id, entry))])

NewEntry(packages, metadata, package_id, repo, tag) ==
  SortedPackageEntry(
    SortAndLatest(
      AddVersion(UpdateStatic(GetOrCreate(packages, package_id, repo), metadata), tag)))

UpsertInto(registry_data, metadata, package_id, repo, tag) ==
  WriteBack(registry_data, package_id,
            NewEntry(registry_data.packages, metadata, package_id, repo, tag))

\* update_package_entry(registry_data, metadata, repo, tag).  The function
\* mutates registry_data in place; the result is the dict after the call and
\* the exception that left the function ("" when it returned).
update_package_entry(registry_data, metadata, repo, tag) ==
  IF "name" \notin DOMAIN metadata
  THEN [registry |-> EnsurePackages(registry_data), raised |-> "KeyError"]
  ELSE [registry |-> UpsertInto(EnsurePackages(registry_data), metadata,
                                PathName(repo), repo, tag),
        raised   |-> ""]

(***************************************************************************)
(* Inputs                                                                  *)
(***************************************************************************)
\* "v1.0.0"
T_v100 == <<"v", "1", ".", "0", ".", "0">>

\* "v0.9.0"
T_v090 == <<"v", "0", ".", "9", ".", "0">>

\* "1.0.0": another tag of the version 1.0.0
T_100 == <<"1", ".", "0", ".", "0">>

\* "v1.0.0-rc.1"
T_rc1 == <<"v", "1", ".", "0", ".", "0", "-", "r", "c", ".", "1">>

\* "not-a-version"
T_bad == <<"n", "o", "t", "-", "a", "-", "v", "e", "r", "s", "i", "o", "n">>

Tags == {T_v100, T_v090, T_100, T_rc1, T_bad}

\* "acme/demo", "evil/demo", "acme/tool"
R_acme_demo == <<"a", "c", "m", "e", "/", "d", "e", "m", "o">>

R_evil_demo == <<"e", "v", "i", "l", "/", "d", "e", "m", "o">>

R_acme_tool == <<"a", "c", "m", "e", "/", "t", "o", "o", "l">>

Repos == {R_acme_demo, R_evil_demo, R_acme_tool}

S_demo == <<"d", "e", "m", "o">>

S_tool == <<"t", "o", "o", "l">>

S_x == <<"x">>

S_A == <<"A">>

\* "a@b.com"
S_email == <<"a", "@", "b", ".", "c", "o", "m">>

\* "main.py"
S_main_py == <<"m", "a", "i", "n", ".", "p", "y">>

AuthorA == PyDict([name |-> PyStr(S_A), email |-> PyStr(S_email)])

\* {name: demo, description: x, author: {name: A, email: a@b.com}, provides: {code: main.py}}
MetaDemo ==
  [name |-> PyStr(S_demo), description |-> PyStr(S_x), author |-> AuthorA,
   provides |-> PyDict([code |-> PyStr(S_main_py)])]

\* A document with a name only.
MetaBare == [name |-> PyStr(S_tool)]

\* A document without a name.
MetaNoName == [description |-> PyStr(S_x)]

Metas == {MetaDemo, MetaBare, MetaNoName}

\* Bound on the number of tags the registry lists, over all its packages.
MaxTags == 3

(***************************************************************************)
(* Files                                                                   *)
(***************************************************************************)
\* No file at the path.
FileMissing == [kind |-> "missing"]

\* A file that is not valid YAML.
FileInvalid == [kind |-> "invalid"]

\* An empty file: yaml.safe_load returns None.
FileEmpty == [kind |-> "empty"]

\* A file holding the YAML mapping `data`.
YamlFile(data) == [kind |-> "yaml", data |-> data]

\* load_yaml_file that reads a missing file as an empty mapping.
load_yaml_file_or_empty(file) ==
  IF file.kind = "invalid" THEN [raised |-> "YAMLError", data |-> EmptyDict]
  ELSE IF file.kind = "yaml" THEN [raised |-> "", data |-> file.data]
  ELSE [raised |-> "", data |-> EmptyDict]

\* load_yaml_file(file_path): the loaded dict, or the exception raised.
load_yaml_file(file) ==
  IF file.kind = "missing" THEN [raised |-> "FileNotFoundError", data |-> EmptyDict]
  ELSE IF file.kind = "invalid" THEN [raised |-> "YAMLError", data |-> EmptyDict]
  ELSE IF file.kind = "empty" THEN [raised |-> "", data |-> EmptyDict]
  ELSE [raised |-> "", data |-> file.data]

Raises(file) == load_yaml_file(file).raised # ""

\* The inputs of the runs of update_registry.py.
MainMetadataFiles == {FileMissing, FileInvalid, FileEmpty, YamlFile(MetaDemo)}

MainRepos == {R_acme_demo, R_evil_demo, R_acme_tool}

MainTags == {T_v100, T_bad}

(***************************************************************************)
(* scripts/validate_package.py                                             *)
(***************************************************************************)
\* Python's None.
PyNone == [type |-> "none"]

\* The rules of a schema, in the order the dict lists them.
SCHEMA ==
  << [key |-> "name", type |-> "str", required |-> TRUE],
     [key |-> "description", type |-> "str", required |-> TRUE],
     [key |-> "author", type |-> "dict", required |-> TRUE],
     [key |-> "provides", type |-> "dict", required |-> TRUE] >>

AUTHOR_SCHEMA ==
  << [key |-> "name", type |-> "str", required |-> TRUE],
     [key |-> "email", type |-> "str", required |-> TRUE] >>

\* No exception.
NoError == [exc |-> ""]

\* ValueError(f"Missing required key: '{full_key}'")
MissingKey(full_key) == [exc |-> "ValueError", what |-> "missing key", key |-> full_key]

\* TypeError(f"Key '{full_key}' has wrong type. Expected ..., but got ...")
WrongType(full_key, expected, actual) ==
  [exc |-> "TypeError", what |-> "wrong type", key |-> full_key,
   expected |-> expected, actual |-> actual]

\* ValueError(f"Key '{key_name}' must not be empty.")
EmptyKey(key_name) == [exc |-> "ValueError", what |-> "empty", key |-> key_name]

\* The other errors of the content checks.
ContentError(exc, what) == [exc |-> exc, what |-> what]

\* The first exception raised of two statements in sequence.
FirstError(first, second) == IF first # NoError THEN first ELSE second

\* full_key = f"{parent_key}.{key}" if parent_key else key
FullKey(parent_key, key) == IF parent_key # "" THEN parent_key \o "." \o key ELSE key

\* One round of the loop of _validate_dict_schema.
CheckRule(data, rule, parent_key) ==
  IF rule.required /\ rule.key \notin DOMAIN data
  THEN MissingKey(FullKey(parent_key, rule.key))
  ELSE IF rule.key \in DOMAIN data /\ data[rule.key].type # rule.type
  THEN WrongType(FullKey(parent_key, rule.key), rule.type, data[rule.key].type)
  ELSE NoError

\* _validate_dict_schema(data, schema, parent_key)
RECURSIVE _validate_dict_schema(_, _, _)
_validate_dict_schema(data, schema, parent_key) ==
  IF schema = <<>> THEN NoError
  ELSE FirstError(CheckRule(data, Head(schema), parent_key),
                  _validate_dict_schema(data, Tail(schema), parent_key))

\* validate_schema that checks the author's keys before the top-level keys.
validate_schema_author_first(data) ==
  IF Get(data, "author", PyNone).type = "dict"
  THEN FirstError(_validate_dict_schema(data.author.value, AUTHOR_SCHEMA, "author"),
                  _validate_dict_schema(data, SCHEMA, ""))
  ELSE _validate_dict_schema(data, SCHEMA, "")

\* validate_schema(data)
validate_schema(data) ==
  FirstError(_validate_dict_schema(data, SCHEMA, ""),
             _validate_dict_schema(Get(data, "author", PyDict(EmptyDict)).value,
                                   AUTHOR_SCHEMA, "author"))

\* `not tag`: None or "".
NoTag(tag) == IF tag.type = "none" THEN TRUE ELSE tag.value = <<>>

\* _check_tag(tag)
_check_tag(tag) ==
  IF NoTag(tag) THEN NoError
  ELSE IF CanParse(LStrip(tag.value, "v")) THEN NoError
  ELSE ContentError("ValueError", "tag is not a semantic version")

\* _check_non_empty_str(value, key_name): `not value or not value.strip()`
_check_non_empty_str(value, key_name) ==
  IF value.type = "none" THEN EmptyKey(key_name)
  ELSE IF value.value = <<>> \/ Strip(value.value) = <<>> THEN EmptyKey(key_name)
  ELSE NoError

\* "your-github-username"
Placeholder ==
  <<"y", "o", "u", "r", "-", "g", "i", "t", "h", "u", "b", "-",
    "u", "s", "e", "r", "n", "a", "m", "e">>

Alnum == Digits \cup Upper \cup Lower

NonEmptyIn(s, chars) == s # <<>> /\ AllIn(s, chars)

\* re.match(r"^[a-zA-Z0-9_.+-]+@[a-zA-Z0-9-]+\.[a-zA-Z0-9-.]+$", email)
EmailMatches(email) ==
  \E i \in 1..Len(email), j \in 1..Len(email) :
    /\ i < j
    /\ email[i] = "@"
    /\ email[j] = "."
    /\ NonEmptyIn(SubSeq(email, 1, i - 1), Alnum \cup {"_", ".", "+", "-"})
    /\ NonEmptyIn(SubSeq(email, i + 1, j - 1), Alnum \cup {"-"})
    /\ NonEmptyIn(SubSeq(email, j + 1, Len(email)), Alnum \cup {"-", "."})

CheckPlaceholder(name) ==
  IF Contains(Placeholder, name.value)
  THEN ContentError("ValueError", "placeholder author.name")
  ELSE NoError

CheckEmail(email) ==
  IF EmailMatches(email.value) THEN NoError
  ELSE ContentError("ValueError", "invalid email")

AuthorChecks(name, email) ==
  FirstError(_check_non_empty_str(name, "author.name"),
    FirstError(_check_non_empty_str(email, "author.email"),
      FirstError(CheckPlaceholder(name), CheckEmail(email))))

\* _check_author_content(author_data)
_check_author_content(author_data) ==
  AuthorChecks(Get(author_data, "name", PyStr(<<>>)),
               Get(author_data, "email", PyStr(<<>>)))

CheckAssets(provides_data) ==
  IF "assets" \in DOMAIN provides_data /\ provides_data["assets"].type # "list"
  THEN ContentError("TypeError", "provides.assets must be a list")
  ELSE NoError

CheckCode(provides_data) ==
  IF "code" \in DOMAIN provides_data /\ provides_data["code"].type # "str"
  THEN ContentError("TypeError", "provides.code must be a string")
  ELSE NoError

\* _check_provides(provides_data)
_check_provides(provides_data) ==
  IF DOMAIN provides_data \cap {"code", "assets"} = {}
  THEN ContentError("ValueError", "provides must contain code and/or assets")
  ELSE FirstError(CheckAssets(provides_data), CheckCode(provides_data))

\* validate_content(data, tag)
validate_content(data, tag) ==
  FirstError(_check_tag(tag),
    FirstError(_check_non_empty_str(Get(data, "name", PyNone), "name"),
      FirstError(_check_non_empty_str(Get(data, "description", PyNone), "description"),
        FirstError(_check_author_content(Get(data, "author", PyDict(EmptyDict)).value),
                   _check_provides(Get(data, "provides", PyDict(EmptyDict)).value)))))

\* What validate_content prints: the tag line only for a tag that parses, the
\* last line only when no check raised.
ContentOutput(data, tag) ==
  <<"-> Running content validation...">>
  \o (IF ~NoTag(tag) /\ _check_tag(tag) = NoError THEN <<"... Version tag OK">> ELSE <<>>)
  \o (IF validate_content(data, tag) = NoError THEN <<"... Content OK">> ELSE <<>>)

(***************************************************************************)
(* Inputs of validate_package.py                                           *)
(***************************************************************************)
\* A key that the document does not have.
Absent == [type |-> "absent"]

\* The dict of the keys of fields that are not Absent.
MakeDict(fields) == [k \in {f \in DOMAIN fields : fields[f] # Absent} |-> fields[k]]

\* "../secrets.yaml"
S_secrets ==
  <<".", ".", "/", "s", "e", "c", "r", "e", "t", "s", ".", "y", "a", "m", "l">>

\* "a@b": no dot after the "@"
S_bad_email == <<"a", "@", "b">>

ValNames == {Absent, PyStr(S_demo), PyStr(<<" ">>), PyInt(1)}

ValDescriptions == {Absent, PyStr(S_x), PyStr(<<>>), PyInt(1)}

ValAuthors ==
  {Absent, AuthorA, PyStr(S_A),
   PyDict([name |-> PyStr(S_A)]),
   PyDict([name |-> PyInt(1), email |-> PyStr(S_email)]),
   PyDict([name |-> PyStr(Placeholder), email |-> PyStr(S_email)]),
   PyDict([name |-> PyStr(S_A), email |-> PyStr(S_bad_email)])}

ValProvides ==
  {Absent, PyList(<<>>), PyDict(EmptyDict),
   PyDict([code |-> PyStr(S_main_py)]),
   PyDict([code |-> PyInt(1)]),
   PyDict([assets |-> PyStr(S_secrets)]),
   PyDict([assets |-> PyList(<<PyDict([path |-> PyStr(S_secrets)])>>)])}

ValDocuments ==
  {PyDict(MakeDict([name |-> n, description |-> d, author |-> a, provides |-> p])) :
     n \in ValNames, d \in ValDescriptions, a \in ValAuthors, p \in ValProvides}

\* The metadata files: missing, not YAML, a YAML list, or a YAML mapping.
ValFiles ==
  {FileMissing, FileInvalid, YamlFile(PyList(<<>>))} \cup {YamlFile(d) : d \in ValDocuments}

ValTags == {PyNone, PyStr(<<>>), PyStr(T_v100), PyStr(T_bad)}

(***************************************************************************)
(* State                                                                   *)
(***************************************************************************)
VARIABLES
  registry,      \* the registry dict update_package_entry works on
  pc,            \* update_registry.main: the statement to run next
  args,          \* update_registry.main: the command line (repo, tag)
  metadataFile,  \* the file at args.metadata_file
  registryFile,  \* the file registry.yaml
  startFile,     \* registry.yaml as it was when the run started
  metadata,      \* update_registry.main: the loaded metadata
  exitCode,      \* update_registry.main: the value returned, -1 while running
  valFile,       \* validate_package.main: the file at args.metadata_file
  valTag,        \* validate_package.main: args.tag
  valPc,         \* validate_package.main: the statement to run next
  valOutput,     \* validate_package.main: the lines printed
  valError,      \* validate_package.main: the exception caught
  valExit        \* validate_package.main: the value returned, -1 while running

mainVars == <<pc, args, metadataFile, registryFile, startFile, metadata, exitCode>>

valVars == <<valFile, valTag, valPc, valOutput, valError, valExit>>

vars == <<registry, mainVars, valVars>>

NoArgs == [repo |-> <<>>, tag |-> <<>>]

MainIdle ==
  /\ pc = "idle"
  /\ args = NoArgs
  /\ metadataFile = FileMissing
  /\ registryFile = FileMissing
  /\ startFile = FileMissing
  /\ metadata = EmptyDict
  /\ exitCode = -1

ValIdle ==
  /\ valFile = FileMissing
  /\ valTag = PyNone
  /\ valPc = "idle"
  /\ valOutput = <<>>
  /\ valError = NoError
  /\ valExit = -1

\* The versions a package has in a registry dict (none when it has no entry).
VersionsOf(data, id) ==
  IF "packages" \in DOMAIN data /\ id \in PackageIds(data.packages)
  THEN EntryOf(data.packages, id).versions
  ELSE <<>>

RECURSIVE TagCount(_)
TagCount(packages) ==
  IF packages = <<>> THEN 0
  ELSE Len(Head(packages)[2].versions) + TagCount(Tail(packages))

\* The call adds no tag, or the registry has room for one more.
Fits(data, repo, tag) ==
  IF "packages" \notin DOMAIN data THEN TRUE
  ELSE IF InSeq(tag, VersionsOf(data, PathName(repo))) THEN TRUE
  ELSE TagCount(data.packages) < MaxTags

\* A registry.yaml edited by hand: the keys of 'packages' are not in order,
\* "tool" has no latest_stable and the one of "demo" names a tag that is not
\* listed.
HandEdited ==
  [packages |->
     << <<S_tool, [name |-> PyStr(S_tool), description |-> PyStr(<<>>),
                   author |-> PyDict(EmptyDict),
                   repository |-> RepositoryUrl(R_acme_tool),
                   versions |-> <<T_v090>>]>>,
        <<S_demo, [name |-> PyStr(S_demo), description |-> PyStr(S_x),
                   author |-> AuthorA,
                   repository |-> RepositoryUrl(R_acme_demo),
                   latest_stable |-> T_v090,
                   versions |-> <<T_bad>>]>> >>]

\* Another one: the versions of "tool" are not in order.
HandEditedVersions ==
  [packages |->
     << <<S_tool, [name |-> PyStr(S_tool), description |-> PyStr(<<>>),
                   author |-> PyDict(EmptyDict),
                   repository |-> RepositoryUrl(R_acme_tool),
                   latest_stable |-> T_v090,
                   versions |-> <<T_v090, T_v100>>]>> >>]

InitialRegistries == {EmptyDict, HandEdited, HandEditedVersions}

\* The registry the calls start from: empty ({}), or one loaded from a file.
Init ==
  /\ registry \in InitialRegistries
  /\ MainIdle
  /\ ValIdle

\* The registry is empty ({}) before the first release.
InitEmpty ==
  /\ registry = EmptyDict
  /\ MainIdle
  /\ ValIdle

\* One call update_package_entry(registry, metadata, repo, tag).
Upsert(meta, repo, tag) ==
  /\ Fits(registry, repo, tag)
  /\ registry' = update_package_entry(registry, meta, repo, tag).registry
  /\ UNCHANGED <<mainVars, valVars>>

Next == \E meta \in Metas, repo \in Repos, tag \in Tags : Upsert(meta, repo, tag)

Spec == Init /\ [][Next]_vars

SpecFromEmpty == InitEmpty /\ [][Next]_vars

(***************************************************************************)
(* update_registry.main: one run is load, load, update, save, return       *)
(***************************************************************************)
InitMain ==
  /\ registry = EmptyDict
  /\ pc = "idle"
  /\ args = NoArgs
  /\ metadataFile = FileMissing
  /\ registryFile \in {FileMissing, FileInvalid, FileEmpty}
  /\ startFile = registryFile
  /\ metadata = EmptyDict
  /\ exitCode = -1
  /\ ValIdle

\* The script is started on a metadata file with --repo and --tag.
MainStart(file, repo, tag) ==
  /\ pc \in {"idle", "done"}
  /\ Fits(load_yaml_file(registryFile).data, repo, tag)
  /\ pc' = "load_metadata"
  /\ args' = [repo |-> repo, tag |-> tag]
  /\ metadataFile' = file
  /\ startFile' = registryFile
  /\ metadata' = EmptyDict
  /\ registry' = EmptyDict
  /\ exitCode' = -1
  /\ UNCHANGED <<registryFile, valVars>>

\* except ...: print the error, return 1
MainFail ==
  /\ pc' = "done"
  /\ exitCode' = 1

\* metadata = load_yaml_file(args.metadata_file)
MainLoadMetadata ==
  /\ pc = "load_metadata"
  /\ IF Raises(metadataFile)
     THEN MainFail /\ UNCHANGED metadata
     ELSE /\ metadata' = load_yaml_file(metadataFile).data
          /\ pc' = "load_registry"
          /\ UNCHANGED exitCode
  /\ UNCHANGED <<registry, args, metadataFile, registryFile, startFile>>
  /\ UNCHANGED valVars

\* registry = load_yaml_file(REGISTRY_FILE)
MainLoadRegistry ==
  /\ pc = "load_registry"
  /\ IF Raises(registryFile)
     THEN MainFail /\ UNCHANGED registry
     ELSE /\ registry' = load_yaml_file(registryFile).data
          /\ pc' = "update"
          /\ UNCHANGED exitCode
  /\ UNCHANGED <<args, metadataFile, registryFile, startFile, metadata>>
  /\ UNCHANGED valVars

\* update_package_entry(registry, metadata, args.repo, args.tag)
MainUpdate ==
  /\ pc = "update"
  /\ registry' = update_package_entry(registry, metadata, args.repo, args.tag).registry
  /\ IF update_package_entry(registry, metadata, args.repo, args.tag).raised # ""
     THEN MainFail
     ELSE pc' = "save_open" /\ UNCHANGED exitCode
  /\ UNCHANGED <<args, metadataFile, registryFile, startFile, metadata>>
  /\ UNCHANGED valVars

\* save_yaml_file: open(file_path, "w") truncates the file, or fails with an
\* OSError that leaves it alone.
MainSaveOpen ==
  /\ pc = "save_open"
  /\ \/ /\ registryFile' = FileEmpty
        /\ pc' = "save_dump"
        /\ UNCHANGED exitCode
     \/ /\ MainFail
        /\ UNCHANGED registryFile
  /\ UNCHANGED <<registry, args, metadataFile, startFile, metadata>>
  /\ UNCHANGED valVars

\* save_yaml_file: yaml.dump writes the registry and main returns 0, or the
\* write fails and leaves a partial file.
MainSaveDump ==
  /\ pc = "save_dump"
  /\ \/ /\ registryFile' = YamlFile(registry)
        /\ pc' = "done"
        /\ exitCode' = 0
     \/ /\ registryFile' \in {FileEmpty, FileInvalid}
        /\ MainFail
  /\ UNCHANGED <<registry, args, metadataFile, startFile, metadata>>
  /\ UNCHANGED valVars

NextMain ==
  \/ \E file \in MainMetadataFiles, repo \in MainRepos, tag \in MainTags :
       MainStart(file, repo, tag)
  \/ MainLoadMetadata
  \/ MainLoadRegistry
  \/ MainUpdate
  \/ MainSaveOpen
  \/ MainSaveDump

SpecMain == InitMain /\ [][NextMain]_vars

(***************************************************************************)
(* validate_package.main: one run on a metadata file and a --tag           *)
(***************************************************************************)
InitValidate ==
  /\ registry = EmptyDict
  /\ MainIdle
  /\ valFile \in ValFiles
  /\ valTag \in ValTags
  /\ valPc = "open"
  /\ valOutput = <<"Validating metadata file">>
  /\ valError = NoError
  /\ valExit = -1

\* except ...: print the error, return 1
ValFail(error, printed) ==
  /\ valError' = error
  /\ valOutput' = valOutput \o printed \o <<"ERROR">>
  /\ valPc' = "done"
  /\ valExit' = 1

\* The is_file check, yaml.safe_load and the isinstance(metadata, dict) check.
OpenError(file) ==
  IF file.kind = "missing" THEN ContentError("FileNotFoundError", "file not found")
  ELSE IF file.kind = "invalid" THEN ContentError("YAMLError", "not YAML")
  ELSE IF file.data.type # "dict" THEN ContentError("TypeError", "must be a YAML dictionary")
  ELSE NoError

ValidateOpen ==
  /\ valPc = "open"
  /\ IF OpenError(valFile) # NoError
     THEN ValFail(OpenError(valFile), <<>>)
     ELSE /\ valPc' = "schema"
          /\ UNCHANGED <<valOutput, valError, valExit>>
  /\ UNCHANGED <<registry, mainVars, valFile, valTag>>

\* validate_schema(metadata)
ValidateSchema ==
  /\ valPc = "schema"
  /\ IF validate_schema(valFile.data.value) # NoError
     THEN ValFail(validate_schema(valFile.data.value),
                  <<"-> Running schema validation...">>)
     ELSE /\ valPc' = "content"
          /\ valOutput' = valOutput \o <<"-> Running schema validation...", "... Schema OK">>
          /\ UNCHANGED <<valError, valExit>>
  /\ UNCHANGED <<registry, mainVars, valFile, valTag>>

\* validate_content(metadata, tag=args.tag), then print SUCCESS and return 0
ValidateContent ==
  /\ valPc = "content"
  /\ IF validate_content(valFile.data.value, valTag) # NoError
     THEN ValFail(validate_content(valFile.data.value, valTag),
                  ContentOutput(valFile.data.value, valTag))
     ELSE /\ valPc' = "done"
          /\ valOutput' = valOutput \o ContentOutput(valFile.data.value, valTag)
                             \o <<"SUCCESS">>
          /\ valExit' = 0
          /\ UNCHANGED valError
  /\ UNCHANGED <<registry, mainVars, valFile, valTag>>

NextValidate ==
  \/ ValidateOpen
  \/ ValidateSchema
  \/ ValidateContent

SpecValidate == InitValidate /\ [][NextValidate]_vars

(***************************************************************************)
(* Properties of update_package_entry                                      *)
(***************************************************************************)
Packages(data) == IF "packages" \in DOMAIN data THEN data.packages ELSE <<>>

Ids(data) == PackageIds(Packages(data))

Entry(data, id) == EntryOf(Packages(data), id)

\* latest_stable of the entry of id, "" when there is no entry or no such key.
LatestOf(data, id) ==
  IF id \in Ids(data) THEN Get(Entry(data, id), "latest_stable", <<>>) ELSE <<>>

NamedMetas == {m \in Metas : "name" \in DOMAIN m}

NoDuplicates(seq) == \A i, j \in 1..Len(seq) : seq[i] = seq[j] => i = j

\* No tag is followed by a tag of a greater version.
Descending(versions) ==
  \A i, j \in 1..Len(versions) :
    i < j => VersionCompare(SortKey(versions[i]), SortKey(versions[j])) >= 0

\* The same, over the tags that parse.
DescendingParsed(versions) ==
  \A i, j \in 1..Len(versions) :
    (i < j /\ KeyParses(versions[i]) /\ KeyParses(versions[j]))
      => VersionCompare(SortKey(versions[i]), SortKey(versions[j])) >= 0

\* C1: applying update_package_entry with the same (metadata, repo, tag) a
\* second time changes nothing: the registry after two calls equals the registry
\* after one, whether or not the tag or a listed tag parses.
C1_Idempotent ==
  \A meta \in Metas, repo \in Repos, tag \in Tags :
    LET once == update_package_entry(registry, meta, repo, tag)
    IN update_package_entry(once.registry, meta, repo, tag) = once

\* The registry is the result of a call with a tag that does not parse, and a
\* package of it lists that tag with a tag that parses.
C1_Witness ==
  \E meta \in NamedMetas, repo \in Repos :
    /\ registry # EmptyDict
    /\ update_package_entry(registry, meta, repo, T_bad).registry = registry
    /\ Len(Entry(registry, PathName(repo)).versions) >= 2
    /\ \E i \in 1..Len(Entry(registry, PathName(repo)).versions) :
         KeyParses(Entry(registry, PathName(repo)).versions[i])

Greater(t1, t2) ==
  IF VersionCompare(SortKey(t1), SortKey(t2)) >= 0 THEN t1 ELSE t2

\* The documents that pass validation.
ValidMetas == {MetaDemo}

AfterOne(meta, repo, t1) == update_package_entry(registry, meta, repo, t1).registry

AfterTwo(meta, repo, t1, t2) ==
  update_package_entry(AfterOne(meta, repo, t1), meta, repo, t2).registry

\* C4 as stated: from every registry, two calls with the same metadata and repo
\* and the distinct tags t1, t2 (taken here to parse) give an entry that lists
\* both, with latest_stable a tag of the greater of their two versions.
C4_Original ==
  \A meta \in ValidMetas, repo \in Repos, t1 \in Tags, t2 \in Tags :
    (t1 # t2 /\ KeyParses(t1) /\ KeyParses(t2))
    => LET entry == Entry(AfterTwo(meta, repo, t1, t2), PathName(repo))
       IN /\ InSeq(t1, entry.versions)
          /\ InSeq(t2, entry.versions)
          /\ KeyParses(entry.latest_stable)
          /\ VersionCompare(SortKey(entry.latest_stable),
                            SortKey(Greater(t1, t2))) = 0

C4_Post(before, entry, t1, t2) ==
  /\ InSeq(t1, entry.versions)
  /\ InSeq(t2, entry.versions)
  /\ Sortable(entry.versions) =>
       /\ entry.latest_stable = entry.versions[1]
       /\ \A i \in 1..Len(entry.versions) :
            VersionCompare(SortKey(entry.latest_stable), SortKey(entry.versions[i])) >= 0
  /\ (Sortable(entry.versions) /\ before = <<>>) => entry.latest_stable = Greater(t1, t2)

\* C4 (amended): from every registry, two calls with the same metadata and repo
\* and the distinct tags t1, t2 give an entry that lists both; when every tag the
\* entry then lists parses, latest_stable is the first of versions and no listed
\* tag is of a greater version, so that it is the greater of t1 and t2 when the
\* package had no version before.  Publishing v0.9.0 after v1.0.0 for a package
\* with no entry gives versions [v1.0.0, v0.9.0] and latest_stable v1.0.0.
C4_LatestIsGreatestListed ==
  /\ \A meta \in ValidMetas, repo \in Repos, t1 \in Tags :
       LET one == update_package_entry(registry, meta, repo, t1).registry
       IN \A t2 \in Tags \ {t1} :
            C4_Post(VersionsOf(registry, PathName(repo)),
                    Entry(update_package_entry(one, meta, repo, t2).registry,
                          PathName(repo)),
                    t1, t2)
  /\ S_demo \notin Ids(registry) =>
       LET entry == Entry(AfterTwo(MetaDemo, R_acme_demo, T_v100, T_v090), S_demo)
       IN entry.versions = <<T_v100, T_v090>> /\ entry.latest_stable = T_v100

\* v0.9.0 was published after v1.0.0 for "demo", while "tool" lists a tag of a
\* greater version than one being published.
C4_Witness ==
  /\ Ids(registry) = {S_demo, S_tool}
  /\ Entry(registry, S_demo).versions = <<T_v100, T_v090>>
  /\ Entry(registry, S_demo).latest_stable = T_v100
  /\ registry = AfterTwo(MetaDemo, R_acme_demo, T_v100, T_v090)
  /\ InSeq(T_v100, Entry(registry, S_tool).versions)

C5_Post(before, latest, entry, tag) ==
  /\ InSeq(tag, entry.versions)
  /\ \A i \in 1..Len(before) : InSeq(before[i], entry.versions)
  /\ entry.latest_stable = latest

\* C5: a call with a tag that parses, for a package that lists a tag that does
\* not, returns; the entry then lists the new tag and every tag it listed, and
\* latest_stable has the value it had before the call ("" when it had none).
C5_UnparseableTagKept ==
  \A repo \in Repos :
    ~Sortable(VersionsOf(registry, PathName(repo))) =>
      \A meta \in NamedMetas, tag \in {t \in Tags : KeyParses(t)} :
        LET r == update_package_entry(registry, meta, repo, tag)
        IN /\ r.raised = ""
           /\ PathName(repo) \in Ids(r.registry)
           /\ C5_Post(VersionsOf(registry, PathName(repo)),
                      LatestOf(registry, PathName(repo)),
                      Entry(r.registry, PathName(repo)), tag)

\* v1.0.0 was published for a package that listed not-a-version and had no
\* latest_stable.
C5_Witness ==
  \E id \in Ids(registry) :
    /\ Entry(registry, id).versions = <<T_bad, T_v100>>
    /\ Entry(registry, id).latest_stable = <<>>

\* C8: a call removes no package and no tag: every package-id of the registry
\* before the call is in it after the call, with every tag it listed.
C8_HistoryGrows ==
  [][\A id \in Ids(registry) :
       /\ id \in Ids(registry')
       /\ \A i \in 1..Len(Entry(registry, id).versions) :
            InSeq(Entry(registry, id).versions[i], Entry(registry', id).versions)]_vars

\* Two packages, one of them with two tags.
C8_Witness ==
  /\ Ids(registry) = {S_demo, S_tool}
  /\ \E id \in Ids(registry) : Len(Entry(registry, id).versions) = 2

KeysAscending(packages) ==
  \A i, j \in 1..Len(packages) : i < j => StrCmp(packages[i][1], packages[j][1]) < 0

\* C10: a call for package-id p leaves the entry of every other package-id as
\* it was, and after a call that returned the keys of 'packages' are ascending.
C10_OtherEntriesUnchanged ==
  \A meta \in Metas, repo \in Repos, tag \in Tags :
    LET r == update_package_entry(registry, meta, repo, tag)
    IN /\ \A id \in Ids(registry) \ {PathName(repo)} :
            id \in Ids(r.registry) /\ Entry(r.registry, id) = Entry(registry, id)
       /\ r.raised = "" => KeysAscending(Packages(r.registry))

\* "demo" and "tool" are both listed, "demo" first, and "tool" still is as the
\* hand-edited file had it although "demo" was updated.
C10_Witness ==
  /\ Len(Packages(registry)) = 2
  /\ Packages(registry)[1][1] = S_demo
  /\ Packages(registry)[2][1] = S_tool
  /\ Entry(registry, S_tool) = Entry(HandEdited, S_tool)
  /\ Entry(registry, S_demo) # Entry(HandEdited, S_demo)

(***************************************************************************)
(* Properties of update_registry.main                                      *)
(***************************************************************************)
\* The registry dict a file loads as ({} when it does not load).
Loaded(file) == load_yaml_file(file).data

\* C3: update_package_entry leaves the repository of every entry that exists as
\* it is, whatever the owner in --repo; an entry it creates gets
\* "https://github.com/" + repo.  A run that returns 0 has kept the repository
\* of every entry of the registry file.
C3_RepositoryFixed ==
  [][/\ pc = "update" =>
          /\ \A id \in Ids(registry) :
               /\ id \in Ids(registry')
               /\ Entry(registry', id).repository = Entry(registry, id).repository
          /\ \A id \in Ids(registry') \ Ids(registry) :
               /\ id = PathName(args.repo)
               /\ Entry(registry', id).repository = GithubPrefix \o args.repo
     /\ exitCode' = 0 =>
          \A id \in Ids(Loaded(startFile)) :
            /\ id \in Ids(Loaded(registryFile'))
            /\ Entry(Loaded(registryFile'), id).repository
                 = Entry(Loaded(startFile), id).repository]_vars

\* "evil/demo" has published for the package "demo" that "acme/demo" created.
C3_Witness ==
  /\ pc = "done"
  /\ exitCode = 0
  /\ args.repo = R_evil_demo
  /\ S_demo \in Ids(Loaded(startFile))
  /\ Entry(Loaded(registryFile), S_demo).repository = GithubPrefix \o R_acme_demo

LoadFails(file) == file.kind \in {"missing", "invalid"}

\* What the run's call of update_package_entry gives on the files as they were.
RunUpsert ==
  update_package_entry(Loaded(startFile), Loaded(metadataFile), args.repo, args.tag)

\* The metadata file or the registry file does not load, or the upsert raises.
RunFails ==
  \/ LoadFails(metadataFile)
  \/ LoadFails(startFile)
  \/ RunUpsert.raised # ""

\* C9: registry.yaml is as the run found it until both loads and the upsert
\* have succeeded; a run whose metadata file or registry file is missing or
\* unparseable, or whose upsert raises, returns 1 and leaves registry.yaml as it
\* was; a run that returns 0 has rewritten it with the upsert's result.
C9_SavedOnlyAfterSuccess ==
  /\ pc \in {"load_metadata", "load_registry", "update", "save_open"}
       => registryFile = startFile /\ exitCode = -1
  /\ pc \in {"save_open", "save_dump"} => ~RunFails
  /\ (pc = "done" /\ RunFails) => (exitCode = 1 /\ registryFile = startFile)
  /\ (pc = "done" /\ exitCode = 0) => registryFile = YamlFile(RunUpsert.registry)
  /\ pc = "done" => exitCode \in {0, 1}

\* A run on a metadata document without a name has returned 1 and left a
\* registry file that lists packages as it was.
C9_Witness ==
  /\ pc = "done"
  /\ exitCode = 1
  /\ metadataFile = FileEmpty
  /\ startFile.kind = "yaml"
  /\ Ids(Loaded(startFile)) # {}
  /\ registryFile = startFile

(***************************************************************************)
(* Properties of validate_package.main                                     *)
(***************************************************************************)
\* The file validated holds a YAML mapping.
IsDocument(file) == IF file.kind = "yaml" THEN file.data.type = "dict" ELSE FALSE

Document == valFile.data.value

\* The keys of the schema tables: the top-level table, then the author table.
TableOrder == <<"name", "description", "author", "provides", "author.name", "author.email">>

HasTyped(data, key, type) == IF key \in DOMAIN data THEN data[key].type = type ELSE FALSE

\* The document violates the schema at the key: the key is missing or its value
\* is of the wrong type (for a key of author, in an author that is a mapping).
Offends(doc, key) ==
  CASE key \in {"name", "description"} -> ~HasTyped(doc, key, "str")
    [] key \in {"author", "provides"} -> ~HasTyped(doc, key, "dict")
    [] key = "author.name" ->
         HasTyped(doc, "author", "dict") /\ ~HasTyped(doc["author"].value, "name", "str")
    [] key = "author.email" ->
         HasTyped(doc, "author", "dict") /\ ~HasTyped(doc["author"].value, "email", "str")

SchemaFails(doc) == \E i \in 1..Len(TableOrder) : Offends(doc, TableOrder[i])

FirstOffending(doc) ==
  TableOrder[CHOOSE i \in 1..Len(TableOrder) :
               /\ Offends(doc, TableOrder[i])
               /\ \A j \in 1..(i - 1) : ~Offends(doc, TableOrder[j])]

\* C7: a document that violates the schema is rejected with the schema error of
\* the first offending key in table order, whatever the tag and the contents
\* are, and the content checks run only on a document that passes the schema.
C7_SchemaErrorFirst ==
  IsDocument(valFile) =>
    /\ InSeq("-> Running content validation...", valOutput) => ~SchemaFails(Document)
    /\ (valPc = "done" /\ SchemaFails(Document)) =>
         /\ valExit = 1
         /\ valError.what \in {"missing key", "wrong type"}
         /\ valError.key = FirstOffending(Document)

\* A document without a description, validated with the tag not-a-version, was
\* rejected for the missing key description.
C7_Witness ==
  /\ valPc = "done"
  /\ valTag = PyStr(T_bad)
  /\ IsDocument(valFile)
  /\ DOMAIN Document = {"name", "author", "provides"}
  /\ Document["name"] = PyStr(S_demo)
  /\ valError = MissingKey("description")
  /\ valExit = 1

\* The path has a parent-directory segment.
HasTraversal(path) == InSeq(<<".", ".">>, Split(path, "/"))

IsUnsafeAsset(asset) ==
  IF asset.type = "dict"
  THEN HasTyped(asset.value, "path", "str") /\ HasTraversal(asset.value["path"].value)
  ELSE FALSE

\* provides.assets has a record whose path has a parent-directory segment.
UnsafeAssets(doc) ==
  /\ HasTyped(doc, "provides", "dict")
  /\ HasTyped(doc["provides"].value, "assets", "list")
  /\ \E i \in 1..Len(doc["provides"].value["assets"].value) :
       IsUnsafeAsset(doc["provides"].value["assets"].value[i])

\* C6: no document whose provides.assets has a record with a parent-directory
\* traversal in its path is accepted: validation of it returns 1.
C6_UnsafePathRejected ==
  (valPc = "done" /\ IsDocument(valFile) /\ UnsafeAssets(Document)) => valExit = 1

====
